---- MODULE Spec2Model ----
(***************************************************************************)
(* A model of csv-uploader.py: rows of a product sheet are grouped into    *)
(* series, and every series is reconciled against the remote shop          *)
(* (create-or-update of the parent product and of one variant per row).    *)
(*                                                                         *)
(* Text values (column names, item codes, costs, handles) are sequences of *)
(* one-character strings, so that split, replace, strip, lower and float() *)
(* are computed character by character as Python computes them.           *)
(***************************************************************************)
EXTENDS Naturals, Integers, Sequences, FiniteSets, TLC

VARIABLES
    environ,            \* os.environ: SHOPIFY_SHOP and SHOPIFY_TOKEN, <<>> when unset
    csv_exists,         \* os.path.exists(CSV_PATH)
    csv_rows,           \* the rows csv.DictReader yields for the file
    pc,                 \* position in main / process_series
    answers,            \* the operator's answers to input(), in order
    dry_run,            \* main's dry_run / process_series' argument
    items,              \* main's items (parse_csv's result)
    series_groups,      \* main's series_groups: ordered <<series, rows>> pairs
    si,                 \* index in series_groups of the series being processed
    product,            \* process_series' product: <<>> (None) or <<record>>
    existing_variants,  \* process_series' existing_variants: <<sku, variant>> pairs
    ri,                 \* index of the row (item) being processed
    todo,               \* variants a cleanup loop still has to look at
    variant,            \* process_series' variant: <<>> ({}), or <<record>>
    e,                  \* the exception create_variant caught on its first POST
    updated_variant,    \* how update_variant's PUT ended for the current row
    remote,             \* the shop: its products (with variants) and its id counter
    log,                \* every request handed to requests.get/post/put/delete
    fails,              \* number of remote calls that failed so far
    run                 \* which invocation of process_series this is (1 or 2)

vars == <<environ, csv_exists, csv_rows, pc, answers, dry_run, items,
          series_groups, si, product, existing_variants, ri, todo, variant, e,
          updated_variant, remote, log, fails, run>>

-----------------------------------------------------------------------------
(* Text *)

UpperChars == <<"A","B","C","D","E","F","G","H","I","J","K","L","M",
                "N","O","P","Q","R","S","T","U","V","W","X","Y","Z">>
LowerChars == <<"a","b","c","d","e","f","g","h","i","j","k","l","m",
                "n","o","p","q","r","s","t","u","v","w","x","y","z">>

\* str.lower() on one character
LowerChar(c) ==
    IF \E i \in 1..Len(UpperChars) : UpperChars[i] = c
    THEN LowerChars[CHOOSE i \in 1..Len(UpperChars) : UpperChars[i] = c]
    ELSE c

\* str.lower()
Lower(s) == [i \in 1..Len(s) |-> LowerChar(s[i])]

RECURSIVE Replace(_, _, _)
\* str.replace(old, new) for a one-character old; new is a text (possibly empty)
Replace(s, old, new) ==
    IF s = <<>> THEN <<>>
    ELSE (IF Head(s) = old THEN new ELSE <<Head(s)>>) \o Replace(Tail(s), old, new)

\* old in s, for a one-character old
Contains(s, c) == \E i \in 1..Len(s) : s[i] = c

RECURSIVE SplitFirst(_, _)
\* s.split(sep)[0]: the text before the first sep, s itself when it has none
SplitFirst(s, sep) ==
    IF s = <<>> \/ Head(s) = sep THEN <<>>
    ELSE <<Head(s)>> \o SplitFirst(Tail(s), sep)

RECURSIVE LStrip(_)
LStrip(s) == IF s # <<>> /\ Head(s) = " " THEN LStrip(Tail(s)) ELSE s

RECURSIVE RStrip(_)
RStrip(s) ==
    IF s # <<>> /\ s[Len(s)] = " " THEN RStrip(SubSeq(s, 1, Len(s) - 1)) ELSE s

\* str.strip()
Strip(s) == RStrip(LStrip(s))

Digits == {"0","1","2","3","4","5","6","7","8","9"}

\* float(s): [ok |-> FALSE] is ValueError; otherwise the sign of the number
\* (-1, 0, 1), which is all the program ever asks of it.  The grammar is
\* Python's for texts of digits, "-" and ".": an optional sign, digits with
\* at most one point and at least one digit; surrounding blanks are ignored.
ParseFloat(s) ==
    LET t    == Strip(s)
        neg  == t # <<>> /\ t[1] = "-"
        body == IF neg THEN Tail(t) ELSE t
        wellFormed ==
            /\ \A i \in 1..Len(body) : body[i] \in Digits \cup {"."}
            /\ Cardinality({i \in 1..Len(body) : body[i] = "."}) <= 1
            /\ \E i \in 1..Len(body) : body[i] \in Digits
        nonZero == \E i \in 1..Len(body) : body[i] \in Digits \ {"0"}
    IN  IF ~wellFormed THEN [ok |-> FALSE, sign |-> 0]
        ELSE [ok |-> TRUE,
              sign |-> IF ~nonZero THEN 0 ELSE IF neg THEN 0 - 1 ELSE 1]

-----------------------------------------------------------------------------
(* Rows: a dict is a sequence of <<key, value>> pairs with distinct keys,   *)
(* in insertion order.                                                     *)

HasKey(d, k) == \E i \in 1..Len(d) : d[i][1] = k

\* d.get(k, default)
Get(d, k, default) ==
    IF HasKey(d, k) THEN d[CHOOSE i \in 1..Len(d) : d[i][1] = k][2] ELSE default

\* d[k] = v: a new key goes last, a known key keeps its place
DictSet(d, k, v) ==
    IF HasKey(d, k)
    THEN [i \in 1..Len(d) |-> IF d[i][1] = k THEN <<k, v>> ELSE d[i]]
    ELSE Append(d, <<k, v>>)

Keys(d) == [i \in 1..Len(d) |-> d[i][1]]

PRODUCT_NAME == <<"P","r","o","d","u","c","t"," ","N","a","m","e">>
PRODUCT_SERIES_CODE ==
    <<"P","r","o","d","u","c","t"," ","S","e","r","i","e","s"," ","C","o","d","e">>
PRODUCT_CODE == <<"P","r","o","d","u","c","t"," ","C","o","d","e">>
\* COST_COLUMN's default
COST_COLUMN == <<"E","u","r","o","s">>

ReservedColumns == {PRODUCT_NAME, PRODUCT_SERIES_CODE, PRODUCT_CODE, COST_COLUMN}

-----------------------------------------------------------------------------
(* parse_csv and group_by_series *)

RECURSIVE CleanedRow(_)
\* parse_csv's cleaned_row: names and values stripped, columns without a name dropped
CleanedRow(row) ==
    IF row = <<>> THEN <<>>
    ELSE LET last == row[Len(row)]
             rest == CleanedRow(SubSeq(row, 1, Len(row) - 1))
         IN  IF last[1] # <<>> /\ Strip(last[1]) # <<>>
             THEN DictSet(rest, Strip(last[1]), Strip(last[2]))
             ELSE rest

\* parse_csv: the cleaned rows that have a product code or a series code
parse_csv(rows) ==
    LET cleaned == [i \in 1..Len(rows) |-> CleanedRow(rows[i])]
    IN  SelectSeq(cleaned, LAMBDA r : Get(r, PRODUCT_CODE, <<>>) # <<>>
                                      \/ Get(r, PRODUCT_SERIES_CODE, <<>>) # <<>>)

\* SeriesOf with the tests for "/" and "-" in the other order
SeriesOfSlashFirst(item) ==
    LET series == Get(item, PRODUCT_SERIES_CODE, <<>>)
        code   == Get(item, PRODUCT_CODE, <<>>)
    IN  IF series # <<>> THEN series
        ELSE IF Contains(code, "/") THEN SplitFirst(code, "/")
        ELSE IF Contains(code, "-") THEN SplitFirst(code, "-")
        ELSE code

\* the series group_by_series files an item under
SeriesOf(item) ==
    LET series == Get(item, PRODUCT_SERIES_CODE, <<>>)
        code   == Get(item, PRODUCT_CODE, <<>>)
    IN  IF series # <<>> THEN series
        ELSE IF Contains(code, "-") THEN SplitFirst(code, "-")
        ELSE IF Contains(code, "/") THEN SplitFirst(code, "/")
        ELSE code

\* GroupInsert with the item put first in its series' list
GroupInsertFirst(groups, item) ==
    LET series == SeriesOf(item)
    IN  IF series = <<>> THEN groups
        ELSE DictSet(groups, series, <<item>> \o Get(groups, series, <<>>))

\* one pass of group_by_series' loop: the item goes last in its series' list,
\* a series seen for the first time goes last among the series
GroupInsert(groups, item) ==
    LET series == SeriesOf(item)
    IN  IF series = <<>> THEN groups
        ELSE DictSet(groups, series, Append(Get(groups, series, <<>>), item))

RECURSIVE group_by_series(_)
group_by_series(rows) ==
    IF rows = <<>> THEN <<>>
    ELSE GroupInsert(group_by_series(SubSeq(rows, 1, Len(rows) - 1)), rows[Len(rows)])

-----------------------------------------------------------------------------
(* process_series' derived values *)

SERIES_DASH == <<"s","e","r","i","e","s","-">>
SERIES_SPACE == <<"S","e","r","i","e","s"," ">>
MIN_PRICE == <<"0",".","0","1">>
DEFAULT_TITLE == <<"D","e","f","a","u","l","t"," ","T","i","t","l","e">>

\* process_series' handle
Handle(series) ==
    SERIES_DASH \o
    Replace(Replace(Replace(Lower(series), ".", <<"-">>), " ", <<"-">>), "/", <<"-">>)

\* process_series' title
Title(series, rows) == Get(rows[1], PRODUCT_NAME, SERIES_SPACE \o series)

\* StrippedCost without .replace(',', '')
StrippedCostWithCommas(item) == Strip(Get(item, COST_COLUMN, <<"0">>))

\* cost = str(cost).replace(',', '').strip()
StrippedCost(item) == Strip(Replace(Get(item, COST_COLUMN, <<"0">>), ",", <<>>))

\* process_series' cost after "Clean up cost": '0' when float() raised
CleanCost(item) ==
    IF StrippedCost(item) # <<>> /\ ~ParseFloat(StrippedCost(item)).ok
    THEN <<"0">> ELSE StrippedCost(item)

\* process_series' cost_float, by its sign
CostFloat(item) ==
    IF StrippedCost(item) = <<>> \/ ~ParseFloat(StrippedCost(item)).ok
    THEN 0 ELSE ParseFloat(StrippedCost(item)).sign

\* process_series' price
Price(item) == IF CostFloat(item) > 0 THEN CleanCost(item) ELSE MIN_PRICE

\* create_variant's and update_variant's "Ensure price is valid"
ValidPrice(price) ==
    IF ParseFloat(price).ok /\ ParseFloat(price).sign > 0 THEN price ELSE MIN_PRICE

\* process_series' clean_key
CleanKey(field_name) ==
    Replace(Replace(Replace(Replace(Lower(field_name),
        " ", <<"_">>), "(", <<>>), ")", <<>>), "-", <<"_">>)

RECURSIVE MetafieldsOfAllColumns(_)
\* Metafields without its test for the reserved columns
MetafieldsOfAllColumns(item) ==
    IF item = <<>> THEN <<>>
    ELSE LET last == item[Len(item)]
             rest == MetafieldsOfAllColumns(SubSeq(item, 1, Len(item) - 1))
         IN  IF last[2] # <<>> /\ Strip(last[2]) # <<>>
             THEN DictSet(rest, CleanKey(last[1]), Strip(last[2]))
             ELSE rest

RECURSIVE Metafields(_)
\* process_series' metafields for an item
Metafields(item) ==
    IF item = <<>> THEN <<>>
    ELSE LET last == item[Len(item)]
             rest == Metafields(SubSeq(item, 1, Len(item) - 1))
         IN  IF last[2] # <<>> /\ Strip(last[2]) # <<>> /\ last[1] \notin ReservedColumns
             THEN DictSet(rest, CleanKey(last[1]), Strip(last[2]))
             ELSE rest

\* set_variant_metafields' metafield_inputs, as <<key, value>> pairs
MetafieldInputs(metafields) ==
    LET kept == SelectSeq(metafields, LAMBDA m : m[2] # <<>> /\ Strip(m[2]) # <<>>)
    IN  [i \in 1..Len(kept) |-> <<Lower(kept[i][1]), Strip(kept[i][2])>>]

-----------------------------------------------------------------------------
(* The shop behind the REST and GraphQL endpoints.  A product is           *)
(* [id, handle, title, variants]; a variant is [id, sku, title, price,      *)
(* inventory_item_id, cost].  The shop gives every new product a default   *)
(* variant without SKU, titled "Default Title", and titles a variant made   *)
(* with option1 = sku after that option.                                   *)

\* how many remote calls of one execution may fail
MaxFailures == 2

\* how a call to requests ends: "rate_limit" is an error whose text holds
\* "429" or "Exceeded", "http_error" any other status >= 400 (rest_api's
\* RuntimeError), "transport_error" an exception requests itself raises
Outcomes == {"ok", "rate_limit", "http_error", "transport_error"}

\* rest_api's RuntimeError
RuntimeErrors == {"rate_limit", "http_error"}

NewVariant(id, sku, title, price) ==
    [id |-> id, sku |-> sku, title |-> title, price |-> price,
     inventory_item_id |-> id, cost |-> <<>>]

\* GET products.json?handle=...&limit=1
ProductsByHandle(handle) ==
    SelectSeq(remote.products, LAMBDA p : p.handle = handle)

\* GET products/{id}/variants.json
VariantsOf(product_id) ==
    LET ps == SelectSeq(remote.products, LAMBDA p : p.id = product_id)
    IN  IF ps = <<>> THEN <<>> ELSE ps[1].variants

\* POST products.json
ShopWithProduct(title, handle) ==
    [products |-> Append(remote.products,
        [id |-> remote.next_id, handle |-> handle, title |-> title,
         variants |-> <<NewVariant(remote.next_id + 1, <<>>, DEFAULT_TITLE, <<>>)>>]),
     next_id |-> remote.next_id + 2]

\* POST products/{id}/variants.json
ShopWithVariant(product_id, sku, price) ==
    [products |-> [i \in 1..Len(remote.products) |->
        IF remote.products[i].id = product_id
        THEN [remote.products[i] EXCEPT
                !.variants = Append(@, NewVariant(remote.next_id, sku, sku, price))]
        ELSE remote.products[i]],
     next_id |-> remote.next_id + 1]

\* DELETE variants/{id}.json
ShopWithoutVariant(variant_id) ==
    [remote EXCEPT !.products = [i \in 1..Len(remote.products) |->
        [remote.products[i] EXCEPT
            !.variants = SelectSeq(@, LAMBDA v : v.id # variant_id)]]]

\* PUT variants/{id}.json
ShopWithPrice(variant_id, price) ==
    [remote EXCEPT !.products = [i \in 1..Len(remote.products) |->
        [remote.products[i] EXCEPT
            !.variants = [j \in 1..Len(@) |->
                IF @[j].id = variant_id THEN [@[j] EXCEPT !.price = price] ELSE @[j]]]]]

\* PUT inventory_items/{id}.json
ShopWithCost(inventory_item_id, cost) ==
    [remote EXCEPT !.products = [i \in 1..Len(remote.products) |->
        [remote.products[i] EXCEPT
            !.variants = [j \in 1..Len(@) |->
                IF @[j].inventory_item_id = inventory_item_id
                THEN [@[j] EXCEPT !.cost = cost] ELSE @[j]]]]]

\* a request, as it is logged: which call, for which series and row, and
\* what it carries
Call(op) ==
    [op |-> op, run |-> run, series |-> si, row |-> ri, target |-> 0,
     sku |-> <<>>, price |-> <<>>, fields |-> <<>>, try |-> 1]

\* requests.get/post/put/delete is handed the request and ends with outcome o
Issue(call, o) ==
    /\ o = "ok" \/ fails < MaxFailures
    /\ log' = Append(log, call)
    /\ fails' = IF o = "ok" THEN fails ELSE fails + 1

-----------------------------------------------------------------------------
(* main *)

PLACEHOLDER_SHOP == "your-shop-name"
PLACEHOLDER_TOKEN == "your-access-token"

\* os.environ.get(name, default)
EnvironGet(name, default) ==
    IF environ[name] = <<>> THEN default ELSE environ[name][1]

SHOP_NAME == EnvironGet("SHOPIFY_SHOP", PLACEHOLDER_SHOP)
ACCESS_TOKEN == EnvironGet("SHOPIFY_TOKEN", PLACEHOLDER_TOKEN)

\* ConfigurationError with "and" for "or": an error only when both are missing
ConfigurationErrorBoth ==
    SHOP_NAME = PLACEHOLDER_SHOP /\ ACCESS_TOKEN = PLACEHOLDER_TOKEN

\* main's "Validate environment variables"
ConfigurationError == SHOP_NAME = PLACEHOLDER_SHOP \/ ACCESS_TOKEN = PLACEHOLDER_TOKEN

\* the keys of create_metafield_definitions' metafield_definitions
metafield_definitions ==
    <<"material", "diameter", "thickness", "bore", "z_teeth",
      "loc_cutting_length", "tl_total_length", "pd_flute_length", "shank_diameter">>

\* main up to create_metafield_definitions()
MainValidate ==
    /\ pc = "main"
    /\ IF ConfigurationError THEN pc' = "exit_config" /\ todo' = todo
       ELSE IF ~csv_exists THEN pc' = "exit_csv" /\ todo' = todo
       ELSE pc' = "definitions" /\ todo' = metafield_definitions
    /\ UNCHANGED <<environ, csv_exists, csv_rows, answers, dry_run, items,
                   series_groups, si, product, existing_variants, ri, variant, e,
                   updated_variant, remote, log, fails, run>>

\* one pass of create_metafield_definitions' loop: whatever the mutation's
\* outcome, it is printed and the loop goes on
CreateMetafieldDefinition ==
    /\ pc = "definitions"
    /\ \E o \in Outcomes :
         Issue([Call("metafieldDefinitionCreate") EXCEPT !.fields = <<Head(todo)>>], o)
    /\ todo' = Tail(todo)
    /\ pc' = IF Tail(todo) = <<>> THEN "parse" ELSE "definitions"
    /\ UNCHANGED <<environ, csv_exists, csv_rows, answers, dry_run, items,
                   series_groups, si, product, existing_variants, ri, variant, e,
                   updated_variant, remote, run>>

\* items = parse_csv(CSV_PATH), and main's return when there are none
MainParse ==
    /\ pc = "parse"
    /\ items' = parse_csv(csv_rows)
    /\ pc' = IF items' = <<>> THEN "exit_empty" ELSE "group"
    /\ UNCHANGED <<environ, csv_exists, csv_rows, answers, dry_run,
                   series_groups, si, product, existing_variants, ri, todo, variant,
                   e, updated_variant, remote, log, fails, run>>

\* series_groups = group_by_series(items)
MainGroup ==
    /\ pc = "group"
    /\ series_groups' = group_by_series(items)
    /\ pc' = "prompt_dry_run"
    /\ UNCHANGED <<environ, csv_exists, csv_rows, answers, dry_run, items,
                   si, product, existing_variants, ri, todo, variant, e,
                   updated_variant, remote, log, fails, run>>

\* what the operator may type at a prompt
Responses == {<<"y">>, <<"Y">>, <<"n">>}

\* input("Do a dry run first? (y/n): ")
MainPromptDryRun ==
    /\ pc = "prompt_dry_run"
    /\ \E response \in Responses :
         /\ answers' = Append(answers, response)
         /\ dry_run' = (Lower(response) = <<"y">>)
    /\ si' = 1
    /\ pc' = "series"
    /\ UNCHANGED <<environ, csv_exists, csv_rows, items, series_groups, product,
                   existing_variants, ri, todo, variant, e, updated_variant,
                   remote, log, fails, run>>

\* main's "for series, series_items in series_groups.items()": the next
\* series is handed to process_series; after the last one of the first loop
\* a dry run leads to the second prompt
MainNextSeries ==
    /\ pc = "series"
    /\ pc' = IF si <= Len(series_groups) THEN "process_series"
             ELSE IF dry_run THEN "prompt_proceed" ELSE "done"
    /\ UNCHANGED <<environ, csv_exists, csv_rows, answers, dry_run, items,
                   series_groups, si, product, existing_variants, ri, todo, variant,
                   e, updated_variant, remote, log, fails, run>>

\* process_series has returned, or main has caught what it raised
MainSeriesReturned ==
    /\ pc = "returned"
    /\ si' = si + 1
    /\ ri' = 0
    /\ pc' = "series"
    /\ UNCHANGED <<environ, csv_exists, csv_rows, answers, dry_run, items,
                   series_groups, product, existing_variants, todo, variant, e,
                   updated_variant, remote, log, fails, run>>

\* MainPromptProceed without its test of the response
MainPromptProceedAnyAnswer ==
    /\ pc = "prompt_proceed"
    /\ \E response \in Responses : answers' = Append(answers, response)
    /\ dry_run' = FALSE /\ si' = 1 /\ pc' = "series"
    /\ UNCHANGED <<environ, csv_exists, csv_rows, items, series_groups, product,
                   existing_variants, ri, todo, variant, e, updated_variant,
                   remote, log, fails, run>>

\* input("Proceed with actual upload? (y/n): ") and the second loop's start
MainPromptProceed ==
    /\ pc = "prompt_proceed"
    /\ \E response \in Responses :
         /\ answers' = Append(answers, response)
         /\ IF Lower(response) = <<"y">>
            THEN dry_run' = FALSE /\ si' = 1 /\ pc' = "series"
            ELSE dry_run' = dry_run /\ si' = si /\ pc' = "done"
    /\ UNCHANGED <<environ, csv_exists, csv_rows, items, series_groups, product,
                   existing_variants, ri, todo, variant, e, updated_variant,
                   remote, log, fails, run>>

-----------------------------------------------------------------------------
(* process_series(series, items, dry_run) for series_groups[si] *)

series == series_groups[si][1]
rows == series_groups[si][2]
item == rows[ri]
handle == Handle(series)

\* ProcessSeriesStart without its "if dry_run"
ProcessSeriesStartNoDryRun ==
    /\ pc = "process_series"
    /\ pc' = "find_products"
    /\ product' = <<>>
    /\ existing_variants' = <<>>
    /\ ri' = 0
    /\ UNCHANGED <<environ, csv_exists, csv_rows, answers, dry_run, items,
                   series_groups, si, todo, variant, e, updated_variant, remote,
                   log, fails, run>>

\* process_series up to "Check if product exists": a dry run prints the
\* variants and metafields it would set, and returns
ProcessSeriesStart ==
    /\ pc = "process_series"
    /\ pc' = IF dry_run THEN "returned" ELSE "find_products"
    /\ product' = <<>>
    /\ existing_variants' = <<>>
    /\ ri' = 0
    /\ UNCHANGED <<environ, csv_exists, csv_rows, answers, dry_run, items,
                   series_groups, si, todo, variant, e, updated_variant, remote,
                   log, fails, run>>

\* find_product_by_handle's first GET; any exception makes it return None
FindProducts(here, found, none) ==
    /\ pc = here
    /\ \E o \in Outcomes :
         /\ Issue(Call("GET products"), o)
         /\ IF o = "ok" /\ ProductsByHandle(handle) # <<>>
            THEN product' = <<ProductsByHandle(handle)[1]>> /\ pc' = found
            ELSE product' = <<>> /\ pc' = none
    /\ UNCHANGED <<environ, csv_exists, csv_rows, answers, dry_run, items,
                   series_groups, si, existing_variants, ri, todo, variant, e,
                   updated_variant, remote, run>>

\* find_product_by_handle's second GET, for the product's variants
FindVariants(here, found, none) ==
    /\ pc = here
    /\ \E o \in Outcomes :
         /\ Issue([Call("GET variants") EXCEPT !.target = product[1].id], o)
         /\ IF o = "ok"
            THEN /\ product' = <<[product[1] EXCEPT !.variants = VariantsOf(product[1].id)]>>
                 /\ pc' = found
            ELSE product' = <<>> /\ pc' = none
    /\ UNCHANGED <<environ, csv_exists, csv_rows, answers, dry_run, items,
                   series_groups, si, existing_variants, ri, todo, variant, e,
                   updated_variant, remote, run>>

\* product = find_product_by_handle(handle); "if not product" leads to create_product
FindProductByHandle == FindProducts("find_products", "find_variants", "create_product")
FindProductVariants == FindVariants("find_variants", "cleanup", "create_product")

\* create_product's POST: what it raises leaves process_series, for main to catch
CreateProductPost ==
    /\ pc = "create_product"
    /\ \E o \in Outcomes :
         /\ Issue([Call("POST products") EXCEPT !.fields = <<handle, Title(series, rows)>>], o)
         /\ IF o = "ok"
            THEN /\ remote' = ShopWithProduct(Title(series, rows), handle)
                 /\ product' = <<remote'.products[Len(remote'.products)]>>
                 /\ pc' = "create_product_variants"
            ELSE UNCHANGED <<remote, product>> /\ pc' = "returned"
    /\ UNCHANGED <<environ, csv_exists, csv_rows, answers, dry_run, items,
                   series_groups, si, existing_variants, ri, todo, variant, e,
                   updated_variant, run>>

\* create_product's GET of the new product's variants; the ones without a
\* SKU are to be deleted
CreateProductVariants ==
    /\ pc = "create_product_variants"
    /\ \E o \in Outcomes :
         /\ Issue([Call("GET variants") EXCEPT !.target = product[1].id], o)
         /\ todo' = IF o = "ok"
                    THEN SelectSeq(VariantsOf(product[1].id), LAMBDA v : v.sku = <<>>)
                    ELSE <<>>
    /\ pc' = IF todo' = <<>> THEN "lookup" ELSE "create_product_delete"
    /\ UNCHANGED <<environ, csv_exists, csv_rows, answers, dry_run, items,
                   series_groups, si, product, existing_variants, ri, variant, e,
                   updated_variant, remote, run>>

\* create_product's DELETE of a default variant; an exception ends the loop
CreateProductDelete ==
    /\ pc = "create_product_delete"
    /\ \E o \in Outcomes :
         /\ Issue([Call("DELETE variant") EXCEPT !.target = Head(todo).id], o)
         /\ IF o = "ok"
            THEN remote' = ShopWithoutVariant(Head(todo).id) /\ todo' = Tail(todo)
            ELSE remote' = remote /\ todo' = <<>>
    /\ pc' = IF todo' = <<>> THEN "lookup" ELSE "create_product_delete"
    /\ UNCHANGED <<environ, csv_exists, csv_rows, answers, dry_run, items,
                   series_groups, si, product, existing_variants, ri, variant, e,
                   updated_variant, run>>

\* whether cleanup_existing_product deletes the variant
IsDefaultVariant(v) ==
    v.sku = <<>> \/ Strip(v.sku) = <<>> \/ v.title = DEFAULT_TITLE

\* cleanup_existing_product's GET; any exception ends the cleanup with a warning
CleanupVariants ==
    /\ pc = "cleanup"
    /\ \E o \in Outcomes :
         /\ Issue([Call("GET variants") EXCEPT !.target = product[1].id], o)
         /\ IF o = "ok"
            THEN /\ todo' = SelectSeq(VariantsOf(product[1].id), IsDefaultVariant)
                 /\ pc' = IF todo' = <<>> THEN "cleanup_options" ELSE "cleanup_delete"
            ELSE todo' = <<>> /\ pc' = "refetch_products"
    /\ UNCHANGED <<environ, csv_exists, csv_rows, answers, dry_run, items,
                   series_groups, si, product, existing_variants, ri, variant, e,
                   updated_variant, remote, run>>

\* cleanup_existing_product's DELETE of a default variant
CleanupDelete ==
    /\ pc = "cleanup_delete"
    /\ \E o \in Outcomes :
         /\ Issue([Call("DELETE variant") EXCEPT !.target = Head(todo).id], o)
         /\ IF o = "ok"
            THEN /\ remote' = ShopWithoutVariant(Head(todo).id)
                 /\ todo' = Tail(todo)
                 /\ pc' = IF todo' = <<>> THEN "cleanup_options" ELSE "cleanup_delete"
            ELSE remote' = remote /\ todo' = <<>> /\ pc' = "refetch_products"
    /\ UNCHANGED <<environ, csv_exists, csv_rows, answers, dry_run, items,
                   series_groups, si, product, existing_variants, ri, variant, e,
                   updated_variant, run>>

\* cleanup_existing_product's PUT of the product's options
CleanupOptions ==
    /\ pc = "cleanup_options"
    /\ \E o \in Outcomes :
         Issue([Call("PUT product") EXCEPT !.target = product[1].id], o)
    /\ pc' = "refetch_products"
    /\ UNCHANGED <<environ, csv_exists, csv_rows, answers, dry_run, items,
                   series_groups, si, product, existing_variants, ri, todo, variant,
                   e, updated_variant, remote, run>>

\* RefetchVariants going on with the product as it was fetched, whether or
\* not the request for its variants succeeds
RefetchVariantsIgnoringFailure ==
    /\ pc = "refetch_variants"
    /\ \E o \in Outcomes :
         Issue([Call("GET variants") EXCEPT !.target = product[1].id], o)
    /\ pc' = "lookup"
    /\ UNCHANGED <<environ, csv_exists, csv_rows, answers, dry_run, items,
                   series_groups, si, product, existing_variants, ri, todo, variant,
                   e, updated_variant, remote, run>>

\* "Re-fetch the product": find_product_by_handle again; None returns
RefetchProduct == FindProducts("refetch_products", "refetch_variants", "returned")
RefetchVariants == FindVariants("refetch_variants", "lookup", "returned")

RECURSIVE VariantsBySku(_)
\* process_series' existing_variants: the product's variants that have a SKU
VariantsBySku(variants) ==
    IF variants = <<>> THEN <<>>
    ELSE LET last == variants[Len(variants)]
             rest == VariantsBySku(SubSeq(variants, 1, Len(variants) - 1))
         IN  IF last.sku # <<>> THEN DictSet(rest, last.sku, last) ELSE rest

\* "Get existing variants"
BuildLookup ==
    /\ pc = "lookup"
    /\ existing_variants' = VariantsBySku(product[1].variants)
    /\ ri' = 1
    /\ pc' = "item"
    /\ UNCHANGED <<environ, csv_exists, csv_rows, answers, dry_run, items,
                   series_groups, si, product, todo, variant, e, updated_variant,
                   remote, log, fails, run>>

-----------------------------------------------------------------------------
(* process_series' "for item in items" *)

sku == Get(item, PRODUCT_CODE, <<>>)

\* where a row goes once its variant is known: "Update inventory cost" when
\* the cost is positive and the variant names its inventory item
AfterVariant(v) ==
    IF CostFloat(item) > 0 /\ v.inventory_item_id # 0 THEN "inventory" ELSE "metafields"

\* the loop's head: past the last row process_series returns; a row without
\* SKU is skipped; a SKU of existing_variants is updated, any other created
NextItem ==
    /\ pc = "item"
    /\ e' = "none"
    /\ updated_variant' = "none"
    /\ IF ri > Len(rows)
       THEN pc' = "returned" /\ UNCHANGED <<ri, variant>>
       ELSE IF sku = <<>>
       THEN pc' = "item" /\ ri' = ri + 1 /\ variant' = <<>>
       ELSE IF HasKey(existing_variants, sku)
       THEN /\ variant' = <<Get(existing_variants, sku, <<>>)>>
            /\ pc' = "update_variant"
            /\ ri' = ri
       ELSE variant' = <<>> /\ pc' = "create_variant" /\ ri' = ri
    /\ UNCHANGED <<environ, csv_exists, csv_rows, answers, dry_run, items,
                   series_groups, si, product, existing_variants, todo, remote,
                   log, fails, run>>

\* update_variant(variant['id'], price): the PUT, whose failure is printed
UpdateVariant ==
    /\ pc = "update_variant"
    /\ \E o \in Outcomes :
         /\ Issue([Call("PUT variant") EXCEPT !.target = variant[1].id, !.sku = sku,
                                              !.price = ValidPrice(Price(item))], o)
         /\ remote' = IF o = "ok"
                      THEN ShopWithPrice(variant[1].id, ValidPrice(Price(item)))
                      ELSE remote
         /\ updated_variant' = IF o = "ok" THEN "updated" ELSE "failed"
    /\ pc' = AfterVariant(variant[1])
    /\ UNCHANGED <<environ, csv_exists, csv_rows, answers, dry_run, items,
                   series_groups, si, product, existing_variants, ri, todo, variant,
                   e, run>>

\* the request both POSTs of create_variant send
VariantData(try) ==
    [Call("POST variant") EXCEPT !.target = product[1].id, !.sku = sku,
                                 !.price = ValidPrice(Price(item)), !.try = try]

\* CreateVariant retrying after any exception, not only a rate-limit error
CreateVariantRetryAnyError ==
    /\ pc = "create_variant"
    /\ \E o \in Outcomes :
         /\ Issue(VariantData(1), o)
         /\ IF o = "ok"
            THEN /\ remote' = ShopWithVariant(product[1].id, sku, ValidPrice(Price(item)))
                 /\ variant' = <<NewVariant(remote.next_id, sku, sku, ValidPrice(Price(item)))>>
                 /\ pc' = AfterVariant(variant'[1])
                 /\ UNCHANGED <<e, ri>>
            ELSE /\ e' = o
                 /\ UNCHANGED <<remote, variant, ri>>
                 /\ pc' = "create_variant_retry"
    /\ UNCHANGED <<environ, csv_exists, csv_rows, answers, dry_run, items,
                   series_groups, si, product, existing_variants, todo,
                   updated_variant, run>>

\* create_variant's first POST: a rate-limit error leads to the retry, any
\* other exception to {} and "Failed to create variant"
CreateVariant ==
    /\ pc = "create_variant"
    /\ \E o \in Outcomes :
         /\ Issue(VariantData(1), o)
         /\ IF o = "ok"
            THEN /\ remote' = ShopWithVariant(product[1].id, sku, ValidPrice(Price(item)))
                 /\ variant' = <<NewVariant(remote.next_id, sku, sku, ValidPrice(Price(item)))>>
                 /\ pc' = AfterVariant(variant'[1])
                 /\ UNCHANGED <<e, ri>>
            ELSE /\ e' = o
                 /\ UNCHANGED <<remote, variant>>
                 /\ IF o = "rate_limit"
                    THEN pc' = "create_variant_retry" /\ ri' = ri
                    ELSE pc' = "item" /\ ri' = ri + 1
    /\ UNCHANGED <<environ, csv_exists, csv_rows, answers, dry_run, items,
                   series_groups, si, product, existing_variants, todo,
                   updated_variant, run>>

\* create_variant's second POST, after time.sleep(2.0); a failure is final
CreateVariantRetry ==
    /\ pc = "create_variant_retry"
    /\ \E o \in Outcomes :
         /\ Issue(VariantData(2), o)
         /\ IF o = "ok"
            THEN /\ remote' = ShopWithVariant(product[1].id, sku, ValidPrice(Price(item)))
                 /\ variant' = <<NewVariant(remote.next_id, sku, sku, ValidPrice(Price(item)))>>
                 /\ pc' = AfterVariant(variant'[1])
                 /\ ri' = ri
            ELSE /\ UNCHANGED <<remote, variant>>
                 /\ pc' = "item" /\ ri' = ri + 1
    /\ UNCHANGED <<environ, csv_exists, csv_rows, answers, dry_run, items,
                   series_groups, si, product, existing_variants, todo, e,
                   updated_variant, run>>

\* update_inventory_cost: it catches RuntimeError alone, so what requests
\* raises leaves process_series, for main to catch
UpdateInventoryCost ==
    /\ pc = "inventory"
    /\ \E o \in Outcomes :
         /\ Issue([Call("PUT inventory_item") EXCEPT
                      !.target = variant[1].inventory_item_id, !.sku = sku,
                      !.fields = <<CleanCost(item)>>], o)
         /\ remote' = IF o = "ok"
                      THEN ShopWithCost(variant[1].inventory_item_id, CleanCost(item))
                      ELSE remote
         /\ pc' = IF o = "ok" \/ o \in RuntimeErrors THEN "metafields" ELSE "returned"
    /\ UNCHANGED <<environ, csv_exists, csv_rows, answers, dry_run, items,
                   series_groups, si, product, existing_variants, ri, todo, variant,
                   e, updated_variant, run>>

\* "Set metafields using GraphQL": set_variant_metafields sends the entries
\* when there are any, and prints what goes wrong; then the next row
SetVariantMetafields ==
    /\ pc = "metafields"
    /\ IF Metafields(item) # <<>> /\ MetafieldInputs(Metafields(item)) # <<>>
       THEN \E o \in Outcomes :
              Issue([Call("metafieldsSet") EXCEPT
                        !.target = variant[1].id, !.sku = sku,
                        !.fields = MetafieldInputs(Metafields(item))], o)
       ELSE UNCHANGED <<log, fails>>
    /\ ri' = ri + 1
    /\ pc' = "item"
    /\ UNCHANGED <<environ, csv_exists, csv_rows, answers, dry_run, items,
                   series_groups, si, product, existing_variants, todo, variant, e,
                   updated_variant, remote, run>>

ProcessSeries ==
    \/ ProcessSeriesStart
    \/ FindProductByHandle
    \/ FindProductVariants
    \/ CreateProductPost
    \/ CreateProductVariants
    \/ CreateProductDelete
    \/ CleanupVariants
    \/ CleanupDelete
    \/ CleanupOptions
    \/ RefetchProduct
    \/ RefetchVariants
    \/ BuildLookup
    \/ NextItem
    \/ UpdateVariant
    \/ CreateVariant
    \/ CreateVariantRetry
    \/ UpdateInventoryCost
    \/ SetVariantMetafields

-----------------------------------------------------------------------------
(* One execution of main: the initial states are the environments, sheets  *)
(* and shops the script may be started with.                               *)

BORE == <<"B","o","r","e">>

\* a row of the sheet as csv.DictReader yields it
SheetRow(series_code, code, name, euros, bore) ==
    << <<PRODUCT_SERIES_CODE, series_code>>, <<PRODUCT_CODE, code>>,
       <<PRODUCT_NAME, name>>, <<COST_COLUMN, euros>>, <<BORE, bore>> >>

\* two series, the second one keyed by its item code; one row at no cost
SheetTwoSeries ==
    << SheetRow(<<"A">>, <<"A","-","1">>, <<"S","a","w">>, <<"5">>, <<"2">>),
       SheetRow(<<"A">>, <<"A","-","2">>, <<"S","a","w">>, <<"0">>, <<>>),
       SheetRow(<<>>, <<"B","/","1">>, <<>>, <<"x">>, <<"3">>) >>

\* one series with a row that has no item code
SheetNoCode ==
    << SheetRow(<<"A">>, <<>>, <<"S","a","w">>, <<"5">>, <<"2">>),
       SheetRow(<<"A">>, <<"A","-","1">>, <<"S","a","w">>, <<" ","1",",","5"," ">>, <<"2">>) >>

\* no row with a product code or a series code
SheetNoRows == << SheetRow(<<>>, <<>>, <<"S","a","w">>, <<"5">>, <<>>) >>

Sheets == {SheetTwoSeries, SheetNoCode, SheetNoRows}

EmptyShop == [products |-> <<>>, next_id |-> 1]

\* a shop that holds series A, with its default variant and variant A-1
ShopWithSeriesA ==
    [products |-> <<[id |-> 1, handle |-> Handle(<<"A">>), title |-> <<"S","a","w">>,
                     variants |-> <<NewVariant(2, <<>>, DEFAULT_TITLE, <<>>),
                                    NewVariant(3, <<"A","-","1">>, <<"A","-","1">>, <<"5">>)>>]>>,
     next_id |-> 4]

Shops == {EmptyShop, ShopWithSeriesA}

EnvironValues == {<<>>, <<PLACEHOLDER_SHOP>>, <<PLACEHOLDER_TOKEN>>, <<"procut">>}

Init ==
    /\ environ \in [{"SHOPIFY_SHOP", "SHOPIFY_TOKEN"} -> EnvironValues]
    /\ csv_exists \in BOOLEAN
    /\ csv_rows \in Sheets
    /\ remote \in Shops
    /\ pc = "main"
    /\ answers = <<>>
    /\ dry_run = FALSE
    /\ items = <<>>
    /\ series_groups = <<>>
    /\ si = 0
    /\ product = <<>>
    /\ existing_variants = <<>>
    /\ ri = 0
    /\ todo = <<>>
    /\ variant = <<>>
    /\ e = "none"
    /\ updated_variant = "none"
    /\ log = <<>>
    /\ fails = 0
    /\ run = 1

Next ==
    \/ MainValidate
    \/ CreateMetafieldDefinition
    \/ MainParse
    \/ MainGroup
    \/ MainPromptDryRun
    \/ MainNextSeries
    \/ MainSeriesReturned
    \/ MainPromptProceed
    \/ ProcessSeries

Spec == Init /\ [][Next]_vars

-----------------------------------------------------------------------------
(* Properties of one execution of main *)

ReadOps == {"GET products", "GET variants"}

\* the requests of the log that satisfy P
Calls(P(_)) == {i \in 1..Len(log) : P(log[i])}

\* C1: process_series(series, rows, dry_run=True) issues no remote call and
\* leaves the shop as it is: no step taken while dry_run holds adds a
\* request to the log or changes the shop.
C1_DryRunIssuesNoCall ==
    [][dry_run => (log' = log /\ remote' = remote)]_vars

\* C1's case: a non-empty series has gone through process_series in a dry run
C1_Witness == dry_run /\ pc = "returned" /\ Len(rows) > 0

\* the create-or-update attempts made for row r of series s: the PUT of
\* update_variant or the first POST of create_variant
Attempts(s, r) ==
    Calls(LAMBDA c : /\ c.series = s /\ c.row = r
                      /\ \/ c.op = "PUT variant"
                         \/ c.op = "POST variant" /\ c.try = 1)

\* C3, its last clause: a failure in one row never prevents the attempt for
\* a later row.  When the upload is complete, in every series a row whose
\* create-or-update was attempted is followed only by rows (with a SKU) whose
\* create-or-update was attempted exactly once.
C3_FailureNeverPreventsLaterRow ==
    (pc = "done" /\ ~dry_run) =>
        \A s \in 1..Len(series_groups) :
            \A r1, r2 \in 1..Len(series_groups[s][2]) :
                (/\ r1 < r2
                 /\ Attempts(s, r1) # {}
                 /\ Get(series_groups[s][2][r2], PRODUCT_CODE, <<>>) # <<>>)
                => Cardinality(Attempts(s, r2)) = 1

\* the POSTs of create_variant for row r of series s
VariantPosts(s, r) ==
    Calls(LAMBDA c : c.op = "POST variant" /\ c.series = s /\ c.row = r)

\* C4: at most two creation POSTs are issued for one row; a second POST is
\* the retry of the same request and directly follows the first; it is
\* issued when and only when the first failed with a rate-limit error, and
\* a failed retry is not retried.
C4_RetriedOnceOnRateLimit ==
    /\ \A s \in 1..Len(series_groups) : \A r \in 1..Len(series_groups[s][2]) :
          Cardinality(VariantPosts(s, r)) <= 2
    /\ \A i \in 1..Len(log) :
          (log[i].op = "POST variant" /\ log[i].try = 2)
          => (i > 1 /\ log[i - 1] = [log[i] EXCEPT !.try = 1])
    /\ pc = "create_variant_retry" => e = "rate_limit"
    /\ (e # "none" /\ pc # "create_variant_retry") =>
          LET posts == Calls(LAMBDA c : c.op = "POST variant")
              last  == log[CHOOSE i \in posts : \A j \in posts : j <= i]
          IN  last.try = IF e = "rate_limit" THEN 2 ELSE 1

\* C4's case: a rate-limited creation was retried, and the retry failed too
C4_Witness ==
    /\ pc = "item" /\ e = "rate_limit" /\ variant = <<>>
    /\ Cardinality(VariantPosts(si, ri - 1)) = 2

\* C5 as stated: no mutating remote call is issued before both prompts have
\* been answered.
C5_NoMutationBeforeBothPrompts ==
    Calls(LAMBDA c : c.op \notin ReadOps) # {} => Len(answers) = 2

\* C5, amended: no call of the reconciliation (lookup, create, update,
\* delete, metadata) is issued before the dry-run prompt has been answered,
\* and after the answer "y" none before the second prompt has been answered
\* "y" too; who declines the dry run is not asked again; the
\* metadata-definition mutations have all been issued when the first prompt
\* appears.
C5_PromptsBeforeReconciliation ==
    /\ Calls(LAMBDA c : c.op # "metafieldDefinitionCreate") # {} =>
          /\ Len(answers) >= 1
          /\ Lower(answers[1]) = <<"y">> =>
                (Len(answers) = 2 /\ Lower(answers[2]) = <<"y">>)
    /\ (Len(answers) >= 1 /\ Lower(answers[1]) # <<"y">>) => Len(answers) = 1
    /\ pc = "prompt_dry_run" =>
          /\ Len(log) = Len(metafield_definitions)
          /\ \A i \in 1..Len(log) : log[i].op = "metafieldDefinitionCreate"

\* C5's case: a variant is created after a dry run and both answers
C5_Witness ==
    Len(answers) = 2 /\ Calls(LAMBDA c : c.op = "POST variant") # {}

\* C10: with SHOPIFY_SHOP or SHOPIFY_TOKEN unset or set to its placeholder,
\* main issues no remote call and ends at its configuration error.
C10_ConfigurationErrorNoCall ==
    (\/ environ["SHOPIFY_SHOP"] \in {<<>>, <<PLACEHOLDER_SHOP>>}
     \/ environ["SHOPIFY_TOKEN"] \in {<<>>, <<PLACEHOLDER_TOKEN>>})
    => (log = <<>> /\ remote \in Shops /\ pc \in {"main", "exit_config"})

\* C10's case: the shop is named, the token is not, the sheet exists, and
\* main has returned
C10_Witness ==
    /\ pc = "exit_config" /\ csv_exists
    /\ environ["SHOPIFY_SHOP"] = <<"procut">> /\ environ["SHOPIFY_TOKEN"] = <<>>

-----------------------------------------------------------------------------
(* Parts of an execution, started from the states main can be in there     *)

\* the texts over an alphabet of at most n characters
Texts(alphabet, n) == UNION {[1..k -> alphabet] : k \in 0..n}

\* main has got as far as pc with a valid configuration and no request yet
MainAt(p) ==
    /\ pc = p
    /\ environ = [v \in {"SHOPIFY_SHOP", "SHOPIFY_TOKEN"} |-> <<"procut">>]
    /\ csv_exists = TRUE
    /\ todo = <<>>
    /\ variant = <<>>
    /\ e = "none"
    /\ updated_variant = "none"
    /\ log = <<>>
    /\ fails = 0
    /\ run = 1

(* process_series twice in succession: the script is run again on the same *)
(* sheet against the shop the first run has left.                          *)

\* the operator starts the upload a second time
RunAgain ==
    /\ pc = "returned"
    /\ run = 1
    /\ run' = 2
    /\ pc' = "process_series"
    /\ ri' = 0
    /\ UNCHANGED <<environ, csv_exists, csv_rows, answers, dry_run, items,
                   series_groups, si, product, existing_variants, todo, variant, e,
                   updated_variant, remote, log, fails>>

InitTwice ==
    /\ MainAt("process_series")
    /\ csv_rows \in {SheetTwoSeries, SheetNoCode}
    /\ items = parse_csv(csv_rows)
    /\ series_groups = group_by_series(items)
    /\ answers = << <<"n">> >>
    /\ dry_run = FALSE
    /\ si = 1
    /\ ri = 0
    /\ product = <<>>
    /\ existing_variants = <<>>
    /\ remote = EmptyShop

NextTwice == ProcessSeries \/ RunAgain

SpecTwice == InitTwice /\ [][NextTwice]_vars

\* every variant of the shop
AllVariants ==
    UNION {{remote.products[i].variants[j] : j \in 1..Len(remote.products[i].variants)} :
           i \in 1..Len(remote.products)}

\* C2: the second run produces no duplicate Child Record: no two variants of
\* the shop bear the same SKU, and the second run issues no creation for a
\* SKU the shop already holds (it finds the SKU in its lookup and updates).
C2_SecondRunCreatesNoDuplicate ==
    /\ \A v, w \in AllVariants : (v.sku # <<>> /\ v.sku = w.sku) => v = w
    /\ (run = 2 /\ pc = "create_variant") => \A v \in AllVariants : v.sku # sku

(* group_by_series on the items parse_csv may return *)

\* how many items a sheet has
MaxItems == 3

GroupSamples ==
    { SheetRow(<<"A">>, <<"A","-","1">>, <<"S","a","w">>, <<"5">>, <<"2">>),
      SheetRow(<<>>, <<"A","-","2">>, <<>>, <<"0">>, <<>>),
      SheetRow(<<>>, <<"B","/","1">>, <<>>, <<"x">>, <<"3">>),
      SheetRow(<<"B">>, <<>>, <<"S","a","w">>, <<"5">>, <<>>),
      SheetRow(<<>>, <<"-","1">>, <<>>, <<"5">>, <<>>) }

InitGroup ==
    /\ MainAt("group")
    /\ csv_rows = <<>>
    /\ items \in Texts(GroupSamples, MaxItems) \ {<<>>}
    /\ series_groups = <<>>
    /\ answers = <<>>
    /\ dry_run = FALSE
    /\ si = 0
    /\ ri = 0
    /\ product = <<>>
    /\ existing_variants = <<>>
    /\ remote = EmptyShop

NextGroup == MainGroup

SpecGroup == InitGroup /\ [][NextGroup]_vars

\* C6: group_by_series is an order-preserving partition: the series are
\* distinct and none is empty, every non-empty series of an item has its
\* group, and a group holds exactly the items of its series, each as often
\* as and in the order in which the input has them; an item without series
\* is in no group.
C6_GroupingIsOrderedPartition ==
    pc = "prompt_dry_run" =>
        /\ \A g, h \in 1..Len(series_groups) :
              series_groups[g][1] = series_groups[h][1] => g = h
        /\ \A i \in 1..Len(items) :
              SeriesOf(items[i]) # <<>> =>
                  \E g \in 1..Len(series_groups) : series_groups[g][1] = SeriesOf(items[i])
        /\ \A g \in 1..Len(series_groups) :
              /\ series_groups[g][1] # <<>>
              /\ series_groups[g][2] =
                    SelectSeq(items, LAMBDA it : SeriesOf(it) = series_groups[g][1])

\* C6's case: two series, the items of the first one apart in the input
C6_Witness ==
    /\ pc = "prompt_dry_run"
    /\ Len(items) = 3
    /\ Len(series_groups) = 2
    /\ series_groups[1][2] = <<items[1], items[3]>>
    /\ series_groups[2][2] = <<items[2]>>
    /\ items[1] # items[3]

(* the series of a single item that has no series code *)

\* how long an item code is
MaxCodeLen == 3

CodeChars == {"A", "-", "/"}

InitSeriesKey ==
    /\ MainAt("group")
    /\ csv_rows = <<>>
    /\ \E code \in Texts(CodeChars, MaxCodeLen) \ {<<>>} :
          items \in { << << <<PRODUCT_CODE, code>>, <<COST_COLUMN, <<"5">> >> >> >>,
                      << SheetRow(<<>>, code, <<>>, <<"5">>, <<>>) >> }
    /\ series_groups = <<>>
    /\ answers = <<>>
    /\ dry_run = FALSE
    /\ si = 0
    /\ ri = 0
    /\ product = <<>>
    /\ existing_variants = <<>>
    /\ remote = EmptyShop

SpecSeriesKey == InitSeriesKey /\ [][NextGroup]_vars

\* the text before the first character of s that is one of delimiters
RECURSIVE Before(_, _)
Before(s, delimiters) ==
    IF s = <<>> \/ Head(s) \in delimiters THEN <<>>
    ELSE <<Head(s)>> \o Before(Tail(s), delimiters)

\* the groups of a single item filed under key
SingleGroup(key) == IF key = <<>> THEN <<>> ELSE << <<key, items>> >>

\* C7 as stated: the series key is the item code up to the first "-" or "/",
\* whichever comes first.
C7_KeyIsCodeBeforeFirstDelimiter ==
    pc = "prompt_dry_run" =>
        series_groups = SingleGroup(Before(Get(items[1], PRODUCT_CODE, <<>>), {"-", "/"}))

\* C7, amended: the series key is the item code up to its first "-" when it
\* has a "-"; failing that, up to its first "/" when it has one; failing
\* that, the whole code.
C7_KeyIsCodeBeforeDashElseSlash ==
    pc = "prompt_dry_run" =>
        LET code == Get(items[1], PRODUCT_CODE, <<>>)
            dash == {i \in 1..Len(code) : code[i] = "-"}
        IN  series_groups =
                SingleGroup(Before(code, IF dash # {} THEN {"-"} ELSE {"/"}))

\* C7's case: a code with both delimiters, the "/" first, has been grouped
C7_Witness ==
    /\ pc = "prompt_dry_run"
    /\ Get(items[1], PRODUCT_CODE, <<>>) = <<"A", "/", "-">>
    /\ series_groups = << << <<"A", "/">>, items >> >>

-----------------------------------------------------------------------------
(* process_series' loop over the rows of one series whose product has been *)
(* found: the state after "Get existing variants".                         *)

\* series A without variants
ShopWithEmptySeriesA ==
    [products |-> <<[id |-> 1, handle |-> Handle(<<"A">>), title |-> <<"S","a","w">>,
                     variants |-> <<>>]>>,
     next_id |-> 2]

\* process_series is at its first row, of the one-row series A
AtFirstRow(row) ==
    /\ MainAt("item")
    /\ csv_rows = <<row>>
    /\ items = <<row>>
    /\ series_groups = group_by_series(items)
    /\ answers = << <<"n">> >>
    /\ dry_run = FALSE
    /\ si = 1
    /\ ri = 1
    /\ product = <<remote.products[1]>>
    /\ existing_variants = VariantsBySku(product[1].variants)

NextRows ==
    \/ NextItem
    \/ UpdateVariant
    \/ CreateVariant
    \/ CreateVariantRetry
    \/ UpdateInventoryCost
    \/ SetVariantMetafields

\* how long a cost is
MaxCostLen == 3

CostChars == {"0", "5", "-", ",", ".", "a", " "}

\* the costs parse_csv may return: stripped texts
Costs == {t \in Texts(CostChars, MaxCostLen) : Strip(t) = t}

InitPrice ==
    /\ remote \in {ShopWithSeriesA, ShopWithEmptySeriesA}
    /\ \E row \in {SheetRow(<<"A">>, <<"A","-","1">>, <<"S","a","w">>, cost, <<"2">>) :
                      cost \in Costs}
                  \cup {<< <<PRODUCT_SERIES_CODE, <<"A">> >>,
                           <<PRODUCT_CODE, <<"A","-","1">> >> >>} :
          AtFirstRow(row)

SpecPrice == InitPrice /\ [][NextRows]_vars

\* a text that reads as a positive number: digits with at most one point,
\* one of the digits not 0
IsPositiveNumber(t) ==
    /\ \A i \in 1..Len(t) : t[i] \in Digits \cup {"."}
    /\ \A i, j \in 1..Len(t) : (t[i] = "." /\ t[j] = ".") => i = j
    /\ \E i \in 1..Len(t) : t[i] \in Digits \ {"0"}

\* the price C8 states for a cost
FlooredPrice(cost) ==
    LET stripped == Strip(Replace(cost, ",", <<>>))
    IN  IF IsPositiveNumber(stripped) THEN stripped ELSE MIN_PRICE

\* C8: every creation and every update of a variant carries "0.01" when the
\* row's cost is empty, zero, negative or no number, and the cost without
\* its thousands separators when that is a positive number; the price it
\* carries is always a positive number.
C8_PriceFloor ==
    \A i \in 1..Len(log) :
        log[i].op \in {"POST variant", "PUT variant"} =>
            /\ log[i].price = FlooredPrice(Get(items[1], COST_COLUMN, <<>>))
            /\ IsPositiveNumber(log[i].price)

\* C8's case: a variant is updated for a row at a negative cost
C8_Witness ==
    /\ Get(items[1], COST_COLUMN, <<>>) = <<"-", "5">>
    /\ \E i \in 1..Len(log) : log[i].op = "PUT variant" /\ log[i].price = MIN_PRICE

(* the metafields of a row with two columns besides the reserved ones *)

\* how long the name of a column is
MaxNameLen == 2

NameChars == {"B", "b", "("}

\* the column names parse_csv may return: the short ones, and three longer
\* ones that differ in their separator
Names ==
    (Texts(NameChars, MaxNameLen) \ {<<>>})
    \cup {<<"B", " ", "b">>, <<"B", "-", "b">>, <<"B", "_", "b">>}

InitMeta ==
    /\ remote = ShopWithSeriesA
    /\ \E n1, n2 \in Names : \E v1 \in {<<>>, <<"2">>} : \E v2 \in {<<>>, <<"3">>} :
          /\ n1 # n2
          /\ AtFirstRow(<< <<PRODUCT_SERIES_CODE, <<"A">> >>,
                           <<PRODUCT_CODE, <<"A","-","1">> >>,
                           <<PRODUCT_NAME, <<"S","a","w">> >>,
                           <<COST_COLUMN, <<"0">> >>,
                           <<n1, v1>>, <<n2, v2>> >>)

NextMeta ==
    \/ NextItem
    \/ UpdateVariant
    \/ SetVariantMetafields

SpecMeta == InitMeta /\ [][NextMeta]_vars

\* the metafieldsSet requests for the row
MetafieldCalls == Calls(LAMBDA c : c.op = "metafieldsSet")

\* the row has been through "Set metafields"
RowDone == pc = "item" /\ ri = 2

\* C9 as stated: the row's Metadata Entry set has exactly two entries.
C9_ExactlyTwoEntries ==
    RowDone => \E i \in MetafieldCalls : Len(log[i].fields) = 2

\* C9, amended: the row's Metadata Entry set has one entry per key of the
\* extra columns whose value is not empty, with the value of the last such
\* column of that key, and none for the four reserved columns: two entries
\* when both values are given and the two names make different keys, fewer
\* otherwise, and no request at all when there is none.
C9_EntriesOfNonEmptyExtraColumns ==
    RowDone =>
        LET row    == items[1]
            extras == {c \in 5..6 : row[c][2] # <<>>}
            keys   == {CleanKey(row[c][1]) : c \in extras}
        IN  IF extras = {} THEN MetafieldCalls = {}
            ELSE \E i \in MetafieldCalls :
                   /\ MetafieldCalls = {i}
                   /\ Len(log[i].fields) = Cardinality(keys)
                   /\ Len(log[i].fields) <= 2
                   /\ \A f \in 1..Len(log[i].fields) :
                        /\ log[i].fields[f][1] \notin {CleanKey(c) : c \in ReservedColumns}
                        /\ \E c \in extras :
                             /\ log[i].fields[f] = <<CleanKey(row[c][1]), row[c][2]>>
                             /\ \A d \in extras :
                                  CleanKey(row[d][1]) = CleanKey(row[c][1]) => d <= c

\* C9's case: both extra columns have a value and two entries are sent
C9_Witness ==
    /\ RowDone
    /\ items[1][5][2] # <<>> /\ items[1][6][2] # <<>>
    /\ \E i \in MetafieldCalls : Len(log[i].fields) = 2

-----------------------------------------------------------------------------
(* Further properties of one execution of main *)

\* C11: on the update path (the row's SKU is in existing_variants) the
\* inventory-cost request is issued only when update_variant's PUT has
\* succeeded and the cost is positive.
C11_CostOnlyAfterSuccessfulUpdate ==
    [][(pc = "inventory" /\ updated_variant # "none" /\ log' # log)
        => (updated_variant = "updated" /\ CostFloat(item) > 0)]_vars

\* C12: the parent record is created only when the lookup by handle has
\* succeeded and found no record: a lookup request that fails makes
\* process_series return (the series is skipped), and a lookup that leads to
\* create_product has succeeded and found no product of that handle.
C12_CreateOnlyAfterSuccessfulLookup ==
    [][(pc = "find_products" \/ pc = "find_variants") =>
          (IF fails' > fails THEN pc' = "returned"
           ELSE (pc' = "create_product" => ProductsByHandle(handle) = <<>>))]_vars

\* the requests made for the rows of a series, and those of the cleanup
ChildOps == {"POST variant", "PUT variant", "PUT inventory_item", "metafieldsSet"}
CleanupOps == {"DELETE variant", "PUT product"}

\* the requests of kind ops made for series s in run r
SeriesCalls(r, s, ops) ==
    Calls(LAMBDA c : c.run = r /\ c.series = s /\ c.op \in ops)

\* C13: for an existing parent the order is cleanup, re-fetch, rows.  A
\* failed request of the re-fetch makes process_series return without a
\* product; a series that has returned gets no further request; the lookup
\* is built from the variants the shop holds after the cleanup; in the log
\* the requests come series by series, no series is looked up more than
\* twice, and where no parent was created every request for a row comes
\* after the second lookup, which comes after every request of the cleanup;
\* and when the upload is complete every series has been looked up.
C13_CleanupThenRefetchThenRows ==
    /\ [][/\ (pc = "refetch_products" \/ pc = "refetch_variants") =>
               (fails' > fails => (pc' = "returned" /\ product' = <<>>))
          /\ pc = "returned" => (log' = log /\ remote' = remote)
          /\ (pc = "lookup" /\ SeriesCalls(run, si, {"POST products"}) = {}) =>
               existing_variants' = VariantsBySku(VariantsOf(product[1].id))]_vars
    /\ [](/\ \A i, j \in 1..Len(log) :
               (i < j /\ log[i].run = log[j].run) => log[i].series <= log[j].series
          /\ \A r \in 1..run : \A s \in 1..Len(series_groups) :
               /\ Cardinality(SeriesCalls(r, s, {"GET products"})) <= 2
               /\ (SeriesCalls(r, s, {"POST products"}) = {}
                   /\ SeriesCalls(r, s, ChildOps) # {}) =>
                     \E i1, i2 \in SeriesCalls(r, s, {"GET products"}) :
                        /\ i1 < i2
                        /\ \A k \in SeriesCalls(r, s, CleanupOps) : i1 < k /\ k < i2
                        /\ \A j \in SeriesCalls(r, s, ChildOps) : i2 < j
          /\ (pc = "done" /\ ~dry_run) =>
               \A s \in 1..Len(series_groups) : SeriesCalls(run, s, {"GET products"}) # {})

\* C13's case: the parent of the first series was found and cleaned up, its
\* re-fetch failed, and the second series is being processed
C13_Witness ==
    /\ Len(series_groups) = 2
    /\ Cardinality(SeriesCalls(1, 1, {"GET products"})) = 2
    /\ SeriesCalls(1, 1, {"DELETE variant"}) # {}
    /\ SeriesCalls(1, 1, ChildOps \cup {"POST products"}) = {}
    /\ SeriesCalls(1, 2, ChildOps) # {}

\* C14: the title a parent is created with is the product name of the
\* series' first row when that row has one, and "Series " followed by the
\* series key when the name is missing or empty; it is never empty.
C14_TitleIsNameElseSeries ==
    \A i \in 1..Len(log) :
        log[i].op = "POST products" =>
            LET group == series_groups[log[i].series]
                name  == Get(group[2][1], PRODUCT_NAME, <<>>)
            IN  /\ log[i].fields[2] =
                      (IF name # <<>> THEN name ELSE SERIES_SPACE \o group[1])
                /\ log[i].fields[2] # <<>>

-----------------------------------------------------------------------------
(* process_series for one series whose sheet names an item code twice       *)

\* sheets of series A: a code twice that the shop does not hold, a code
\* twice that ShopWithSeriesA holds, and two different codes
SameSkuSheets ==
    { << SheetRow(<<"A">>, <<"A","-","2">>, <<"S","a","w">>, <<"5">>, <<"2">>),
         SheetRow(<<"A">>, <<"A","-","2">>, <<"S","a","w">>, <<"0">>, <<>>) >>,
      << SheetRow(<<"A">>, <<"A","-","1">>, <<"S","a","w">>, <<"5">>, <<>>),
         SheetRow(<<"A">>, <<"A","-","1">>, <<"S","a","w">>, <<"5">>, <<>>) >>,
      << SheetRow(<<"A">>, <<"A","-","1">>, <<"S","a","w">>, <<"0">>, <<>>),
         SheetRow(<<"A">>, <<"A","-","2">>, <<"S","a","w">>, <<"5">>, <<>>) >> }

InitSameSku ==
    /\ MainAt("process_series")
    /\ csv_rows \in SameSkuSheets
    /\ items = parse_csv(csv_rows)
    /\ series_groups = group_by_series(items)
    /\ answers = << <<"n">> >>
    /\ dry_run = FALSE
    /\ si = 1
    /\ ri = 0
    /\ product = <<>>
    /\ existing_variants = <<>>
    /\ remote \in {EmptyShop, ShopWithSeriesA}

NextSameSku == ProcessSeries

SpecSameSku == InitSameSku /\ [][NextSameSku]_vars

\* C15: one invocation of process_series creates at most one variant per
\* SKU: no two variants of the shop bear the same SKU, and create_variant is
\* called only for a SKU no variant of the parent bears (a later row of the
\* same SKU finds the variant created for the earlier row and updates it).
C15_OneCreationPerSku ==
    /\ \A p \in 1..Len(remote.products) :
          \A i, j \in 1..Len(remote.products[p].variants) :
              (/\ remote.products[p].variants[i].sku # <<>>
               /\ remote.products[p].variants[i].sku = remote.products[p].variants[j].sku)
              => i = j
    /\ pc = "create_variant" =>
          \A i \in 1..Len(VariantsOf(product[1].id)) :
              VariantsOf(product[1].id)[i].sku # sku

-----------------------------------------------------------------------------
(* main's loop over two series whose keys differ                            *)

\* series keys a sheet may hold: they differ in case or in the characters
\* process_series replaces when it makes the handle
SeriesKeys == {<<"A">>, <<"a">>, <<"A",".","1">>, <<"A","-","1">>, <<"B">>}

\* the sheet's item codes
ItemCodes == {<<"X">>, <<"Y">>}

InitHandles ==
    /\ MainAt("series")
    /\ \E k1, k2 \in SeriesKeys : \E code \in ItemCodes :
          /\ k1 # k2
          /\ csv_rows = << SheetRow(k1, <<"X">>, <<"S","a","w">>, <<"5">>, <<>>),
                           SheetRow(k2, code, <<"S","a","w">>, <<"5">>, <<>>) >>
    /\ items = parse_csv(csv_rows)
    /\ series_groups = group_by_series(items)
    /\ answers = << <<"n">> >>
    /\ dry_run = FALSE
    /\ si = 1
    /\ ri = 0
    /\ product = <<>>
    /\ existing_variants = <<>>
    /\ remote = EmptyShop

NextHandles ==
    \/ MainNextSeries
    \/ MainSeriesReturned
    \/ ProcessSeries

SpecHandles == InitHandles /\ [][NextHandles]_vars

\* the requests that name the parent they act on: the fetch of its variants
\* (by lookup, creation and cleanup), the reset of its options, and the
\* creation of a variant under it
ParentOps == {"GET variants", "PUT product", "POST variant"}

\* C16: two series with distinct keys are never reconciled against the same
\* parent: no product is named by requests of two different series of one
\* run, so no series creates variants under, or cleans up, the parent that
\* another series of the run has created or reconciled.
C16_DistinctSeriesDistinctParents ==
    \A i, j \in 1..Len(log) :
        (/\ log[i].op \in ParentOps /\ log[j].op \in ParentOps
         /\ log[i].run = log[j].run
         /\ log[i].series # log[j].series)
        => log[i].target # log[j].target

====
